---- MODULE Spec2Model ----
(***************************************************************************)
(* News recommendation service (harrypotterplan/News_project).             *)
(*                                                                         *)
(* The model covers the relational store the Flask application works on    *)
(* (user_searches, user_article_log, user_feedback, recommended_articles), *)
(* the request handlers that write it (search_news, log_user_action,       *)
(* feedback, store_recommendations, the offline store_recommendations of   *)
(* evaluate_model.py) and the keyword scorer get_keyword_recommendations   *)
(* that reads it.  The article catalog (articles, keywords,                *)
(* article_keywords) is written by the crawler only and is read-only here. *)
(*                                                                         *)
(* svd_model and bpr_model are the module-level model handles of app.py;  *)
(* `inflight` holds the requests that are being served concurrently, each  *)
(* with its local variables.                                               *)
(*                                                                         *)
(* `ret` is a history variable: the arguments and the outcome of the most  *)
(* recent call.                                                            *)
(***************************************************************************)
EXTENDS Integers, Sequences, FiniteSets, Bags, TLC

VARIABLES user_searches, user_article_log, user_feedback,
          recommended_articles, svd_model, bpr_model, inflight, ret

vars == <<user_searches, user_article_log, user_feedback,
          recommended_articles, svd_model, bpr_model, inflight, ret>>

-----------------------------------------------------------------------------
(* Bounds of the model *)

\* most rows the recommended_articles table holds
MaxRows == 2
\* most rows user_article_log and user_searches hold together
MaxEvents == 3
\* largest cut-off k the metrics are computed at
MaxK == 3
\* largest top_n a scorer is called with
MaxTopN == 2

-----------------------------------------------------------------------------
(* The catalog and the users *)

Users == {1, 2}
Articles == {1, 2, 3}

\* SQL NULL / Python None in a string-typed column or argument
NULL == "NULL"

\* (batch_id, algorithm_version) of a store_recommendations call: the
\* defaults of the signature, and what home passes
CallKinds == {<<NULL, "keyword_v1">>,
              <<"keyword_batch_20250615", "keyword_v1">>,
              <<"keyword_batch_20250615", "svd_v1">>}
\* values str(uuid.uuid4())[:8] can produce
Tokens == {"0f1e2d3c", "a9b8c7d6"}
\* ordered article id lists handed to store_recommendations
ArticleLists == {<<1>>, <<2, 1>>}
\* an id that is in no row of articles
InvalidArticle == 0
\* per-user lists train_and_recommend hands to the offline writer
EvalLists == {<<>>, <<InvalidArticle, 1>>}

\* no element occurs twice in the sequence
NoDuplicates(s) == \A i, j \in 1..Len(s) : i # j => s[i] # s[j]

IsPrefix(s, t) == Len(s) <= Len(t) /\ SubSeq(t, 1, Len(s)) = s

-----------------------------------------------------------------------------
(* Recommendation ledger: app.store_recommendations *)

\* 1.0 / rank, kept as the exact fraction numerator/denominator
Score(rank) == [num |-> 1, den |-> rank]

\* slip: the generated token is used whether or not batch_id was given
SessionIdAlwaysToken(batch_id, token) == token

\* session_id = str(uuid.uuid4())[:8] if batch_id is None else batch_id
SessionId(batch_id, token) == IF batch_id = NULL THEN token ELSE batch_id

\* slip: enumerate(article_ids) counting from 0
InsertValuesZeroBased(user_id, article_id, rank, batch_id, algorithm_version, session_id) ==
    [user_id |-> user_id, article_id |-> article_id,
     recommendation_rank |-> rank - 1, recommendation_score |-> Score(rank - 1),
     batch_id |-> batch_id,
     recommendation_algorithm_version |-> algorithm_version,
     recommendation_session_id |-> session_id]

\* the tuple bound to the INSERT statement
InsertValues(user_id, article_id, rank, batch_id, algorithm_version, session_id) ==
    [user_id |-> user_id, article_id |-> article_id,
     recommendation_rank |-> rank, recommendation_score |-> Score(rank),
     batch_id |-> batch_id,
     recommendation_algorithm_version |-> algorithm_version,
     recommendation_session_id |-> session_id]

\* The unique key of recommended_articles on (user_id, article_id, batch_id):
\* the INSERT raises error 1062.  A NULL batch_id never collides (MySQL).
DuplicateKey(rows, user_id, article_id, batch_id) ==
    /\ batch_id # NULL
    /\ \E i \in 1..Len(rows) :
          /\ rows[i].user_id = user_id
          /\ rows[i].article_id = article_id
          /\ rows[i].batch_id = batch_id

\* slip: the duplicate-key error is re-raised like any other
OnInsertErrorAlwaysRaise(duplicate) == "raise"

\* what the handler of the inner try does with an insert error:
\* "1062" in str(e) -> skip the row, anything else -> raise e
OnInsertError(duplicate) == IF duplicate THEN "skip" ELSE "raise"

\* The for loop over enumerate(article_ids, 1), from position rank on.
\* fail is the position whose INSERT fails with an error other than a
\* duplicate key (0: no such failure).
RECURSIVE InsertLoop(_, _, _, _, _, _, _, _)
InsertLoop(rows, user_id, article_ids, batch_id, algorithm_version, session_id, fail, rank) ==
    IF rank > Len(article_ids) THEN [rows |-> rows, raised |-> FALSE]
    ELSE LET dup == DuplicateKey(rows, user_id, article_ids[rank], batch_id)
             err == fail = rank \/ dup
         IN  IF err /\ OnInsertError(fail # rank) = "raise"
                THEN [rows |-> rows, raised |-> TRUE]
             ELSE IF err
                THEN InsertLoop(rows, user_id, article_ids, batch_id,
                                algorithm_version, session_id, fail, rank + 1)
             ELSE InsertLoop(Append(rows, InsertValues(user_id, article_ids[rank], rank,
                                                       batch_id, algorithm_version, session_id)),
                             user_id, article_ids, batch_id,
                             algorithm_version, session_id, fail, rank + 1)

\* the table after the call: conn.commit() when the loop ran through,
\* conn.rollback() in the outer except when an insert raised
AfterStore(before, loop) == IF loop.raised THEN before ELSE loop.rows

\* values of fail for the statements of the call other than an INSERT:
\* mysql.connection.cursor().connection raises, conn.cursor() raises,
\* conn.commit() raises
ConnectionFails == -1
CursorFails == -2
CommitFails == -3

\* How the call ends.  An insert or the commit that raises MySQLdb.Error is
\* caught by the outer except, which rolls back, and the call returns.  When
\* the connection cannot be obtained the except branch reads the unassigned
\* local conn, and when the cursor cannot be obtained the finally branch
\* reads the unassigned local cur: UnboundLocalError leaves the function.
StoreOutcome(fail, loop) ==
    CASE fail = ConnectionFails -> "raised"
      [] fail = CursorFails -> "raised"
      [] fail = CommitFails -> "rolled_back"
      [] OTHER -> IF loop.raised THEN "rolled_back" ELSE "committed"

store_recommendations(user_id, article_ids, batch_id, algorithm_version, token, fail) ==
    LET session_id == SessionId(batch_id, token)
        loop == InsertLoop(recommended_articles, user_id, article_ids, batch_id,
                           algorithm_version, session_id, fail, 1)
        outcome == StoreOutcome(fail, loop)
    IN  /\ Len(loop.rows) <= MaxRows
        /\ recommended_articles' =
              IF outcome = "committed" THEN AfterStore(recommended_articles, loop)
              ELSE recommended_articles
        /\ ret' = [op |-> "store_recommendations", user_id |-> user_id,
                   article_ids |-> article_ids, batch_id |-> batch_id,
                   algorithm_version |-> algorithm_version, token |-> token,
                   fail |-> fail, before |-> Len(recommended_articles),
                   outcome |-> outcome]
        /\ UNCHANGED <<user_searches, user_article_log, user_feedback>>
        /\ UNCHANGED <<svd_model, bpr_model, inflight>>

StoreRecommendations ==
    \E user_id \in Users, article_ids \in ArticleLists,
       kind \in CallKinds, token \in Tokens :
       \E fail \in {ConnectionFails, CursorFails, CommitFails} \cup 0..Len(article_ids) :
          \* the token is generated only when batch_id is None
          /\ kind[1] # NULL => token = CHOOSE t \in Tokens : TRUE
          /\ store_recommendations(user_id, article_ids, kind[1], kind[2], token, fail)

-----------------------------------------------------------------------------
(* Recommendation ledger: evaluate_model.store_recommendations *)

\* the row the offline INSERT writes: only four columns are bound, the
\* others take the column default
EvalInsertValues(user_id, article_id, rank) ==
    [user_id |-> user_id, article_id |-> article_id,
     recommendation_rank |-> rank, recommendation_score |-> Score(rank),
     batch_id |-> NULL,
     recommendation_algorithm_version |-> NULL,
     recommendation_session_id |-> NULL]

\* for rank, article_id in enumerate(article_ids, 1), skipping the ids that
\* are not in articles
RECURSIVE EvalInsertLoop(_, _, _, _)
EvalInsertLoop(rows, user_id, article_ids, rank) ==
    IF rank > Len(article_ids) THEN rows
    ELSE IF article_ids[rank] \notin Articles
        THEN EvalInsertLoop(rows, user_id, article_ids, rank + 1)
    ELSE EvalInsertLoop(Append(rows, EvalInsertValues(user_id, article_ids[rank], rank)),
                        user_id, article_ids, rank + 1)

\* for user_id, article_ids in recommendations.items()
RECURSIVE EvalUserLoop(_, _, _)
EvalUserLoop(rows, recommendations, todo) ==
    IF todo = {} THEN rows
    ELSE LET user_id == CHOOSE u \in todo : \A v \in todo : u <= v
         IN  EvalUserLoop(EvalInsertLoop(rows, user_id, recommendations[user_id], 1),
                          recommendations, todo \ {user_id})

\* cur.execute("TRUNCATE TABLE recommended_articles")
Truncate(rows) == <<>>

evaluate_model_store_recommendations(recommendations) ==
    LET rows == EvalUserLoop(Truncate(recommended_articles), recommendations,
                             DOMAIN recommendations)
    IN  /\ Len(rows) <= MaxRows
        /\ recommended_articles' = rows
        /\ ret' = [op |-> "evaluate_model.store_recommendations",
                   recommendations |-> recommendations,
                   before |-> Len(recommended_articles)]
        /\ UNCHANGED <<user_searches, user_article_log, user_feedback>>
        /\ UNCHANGED <<svd_model, bpr_model, inflight>>

EvalStoreRecommendations ==
    \E recommendations \in [Users -> EvalLists] :
        evaluate_model_store_recommendations(recommendations)

-----------------------------------------------------------------------------
(* Event store writers: search_news, log_user_action, feedback.            *)
(* user_searches, user_article_log and user_feedback are bags of rows.     *)

EventCount == BagCardinality(user_article_log) + BagCardinality(user_searches)

\* INSERT INTO user_searches (user_id, search_term)
search_news(user_id, query) ==
    /\ EventCount < MaxEvents
    /\ user_searches' = user_searches (+) SetToBag({[user_id |-> user_id, search_term |-> query]})
    /\ ret' = [op |-> "search_news"]
    /\ UNCHANGED <<user_article_log, user_feedback, recommended_articles>>
    /\ UNCHANGED <<svd_model, bpr_model, inflight>>

\* the table after INSERT INTO user_article_log (user_id, article_id, action_type)
LogInsert(log, user_id, article_id, action_type) ==
    log (+) SetToBag({[user_id |-> user_id, article_id |-> article_id,
                       action_type |-> action_type]})

\* the routes article_detail, view_article and log_action
log_user_action(user_id, article_id, action_type) ==
    /\ EventCount < MaxEvents
    /\ user_article_log' = LogInsert(user_article_log, user_id, article_id, action_type)
    /\ ret' = [op |-> "log_user_action"]
    /\ UNCHANGED <<user_searches, user_feedback, recommended_articles>>
    /\ UNCHANGED <<svd_model, bpr_model, inflight>>

\* fetchone() found no row
NoRow == [feedback_type |-> NULL]

\* rows of user_feedback WHERE user_id = %s AND article_id = %s
FeedbackRows(fb, user_id, article_id) ==
    {r \in BagToSet(fb) : r.user_id = user_id /\ r.article_id = article_id}

\* what cur.fetchone() can return for the SELECT of the handler
ExistingFeedback(fb, user_id, article_id) ==
    IF FeedbackRows(fb, user_id, article_id) = {} THEN {NoRow}
    ELSE FeedbackRows(fb, user_id, article_id)

\* DELETE FROM user_feedback WHERE user_id = %s AND article_id = %s
DeleteFeedback(fb, user_id, article_id) ==
    LET keep == BagToSet(fb) \ FeedbackRows(fb, user_id, article_id)
    IN  [r \in keep |-> fb[r]]

\* UPDATE user_feedback SET feedback_type = %s WHERE user_id = %s AND article_id = %s
UpdateFeedback(fb, user_id, article_id, feedback_type) ==
    LET hit == FeedbackRows(fb, user_id, article_id)
        n == BagCardinality([r \in hit |-> fb[r]])
        new == [user_id |-> user_id, article_id |-> article_id,
                feedback_type |-> feedback_type]
    IN  IF hit = {} THEN fb
        ELSE DeleteFeedback(fb, user_id, article_id) (+) [r \in {new} |-> n]

\* INSERT INTO user_feedback (user_id, article_id, feedback_type)
InsertFeedback(fb, user_id, article_id, feedback_type) ==
    fb (+) SetToBag({[user_id |-> user_id, article_id |-> article_id,
                      feedback_type |-> feedback_type]})

\* feedback types the handler stores
StoredFeedbackTypes == {"like", "dislike", "read", "click_external_link"}

\* slip: a row of another type is kept and a second row is inserted
OnExistingFeedbackInsert(fb, existing, user_id, article_id, feedback_type) ==
    IF existing.feedback_type = feedback_type
        THEN [fb |-> fb, status |-> 200]
    ELSE [fb |-> InsertFeedback(fb, user_id, article_id, feedback_type), status |-> 200]

\* the branch "if existing_feedback:" of the handler
OnExistingFeedback(fb, existing, user_id, article_id, feedback_type) ==
    IF existing.feedback_type = feedback_type
        THEN [fb |-> fb, status |-> 200]
    ELSE [fb |-> UpdateFeedback(fb, user_id, article_id, feedback_type), status |-> 200]

\* The handler after the SELECT and the logging: the user_feedback table it
\* commits and the HTTP status it returns.
FeedbackOutcome(fb, existing, user_id, article_id, feedback_type) ==
    IF feedback_type = "cancel"
        THEN IF existing # NoRow
                THEN [fb |-> DeleteFeedback(fb, user_id, article_id), status |-> 200]
             ELSE [fb |-> fb, status |-> 400]
    ELSE IF existing # NoRow
        THEN OnExistingFeedback(fb, existing, user_id, article_id, feedback_type)
    ELSE IF feedback_type \in StoredFeedbackTypes
        THEN [fb |-> InsertFeedback(fb, user_id, article_id, feedback_type), status |-> 200]
    ELSE [fb |-> fb, status |-> 400]

\* like and dislike are logged before anything else is looked at
FeedbackIsLogged(feedback_type) == feedback_type \in {"like", "dislike"}

\* the action_type log_user_action is called with: f'feedback_{feedback_type}'
FeedbackActionType(feedback_type) ==
    CASE feedback_type = "like" -> "feedback_like"
      [] feedback_type = "dislike" -> "feedback_dislike"
      [] OTHER -> "feedback_other"

\* POST /feedback of a logged-in user for their own user_id
feedback(user_id, article_id, feedback_type) ==
    \E existing \in ExistingFeedback(user_feedback, user_id, article_id) :
        LET out == FeedbackOutcome(user_feedback, existing, user_id, article_id, feedback_type)
        IN  /\ FeedbackIsLogged(feedback_type) => EventCount < MaxEvents
            /\ user_article_log' =
                  IF FeedbackIsLogged(feedback_type)
                      THEN LogInsert(user_article_log, user_id, article_id,
                                     FeedbackActionType(feedback_type))
                  ELSE user_article_log
            /\ user_feedback' = out.fb
            /\ ret' = [op |-> "feedback", user_id |-> user_id, article_id |-> article_id,
                       feedback_type |-> feedback_type, status |-> out.status]
            /\ UNCHANGED <<user_searches, recommended_articles>>
            /\ UNCHANGED <<svd_model, bpr_model, inflight>>

-----------------------------------------------------------------------------
(* The article catalog read by the scorers *)

\* articles.published_at (articles 1 and 2 were published at the same time)
published_at(article_id) ==
    CASE article_id = 1 -> 20
      [] article_id = 2 -> 20
      [] OTHER -> 10

\* keywords.keyword_text
KeywordTexts == {"ai", "economy"}

\* article_keywords JOIN keywords: (article_id, keyword_text); article 3 has
\* no keyword
article_keywords == {<<1, "ai">>, <<2, "ai">>, <<2, "economy">>}

\* what users type into the search box
SearchTerms == {"ai", "economy", "weather"}

Min(a, b) == IF a <= b THEN a ELSE b
Max(a, b) == IF a >= b THEN a ELSE b

\* the first n elements of a sequence (a Python slice s[:n], an SQL LIMIT n)
Take(s, n) == SubSeq(s, 1, Min(n, Len(s)))

\* the sum of f[x] over the finite set S
RECURSIVE SumOver(_, _)
SumOver(S, f) ==
    IF S = {} THEN 0
    ELSE LET x == CHOOSE y \in S : TRUE IN f[x] + SumOver(S \ {x}, f)

\* Every order in which a query may return the rows S when Before(a, b) says
\* that a sorts strictly before b: rows that tie come in any order.
OrderedSeqs(S, Before(_, _)) ==
    {s \in [1..Cardinality(S) -> S] :
        /\ \A i, j \in 1..Cardinality(S) : i # j => s[i] # s[j]
        /\ \A i, j \in 1..Cardinality(S) : i < j => ~Before(s[j], s[i])}

-----------------------------------------------------------------------------
(* get_keyword_recommendations *)

\* if search_count < 3 and action_count < 3
MinActivity == 3
\* ... GROUP BY search_term ORDER BY frequency DESC LIMIT 5
SearchTermLimit == 5
\* sorted(...)[:5]
MaxKeywords == 5
\* k=min(len(keywords), 3)
MaxSelected == 3

\* COUNT(ual.id) of the LEFT JOIN: log rows of the article, of any user and
\* any action_type
LogCount(article_id) ==
    LET rows == {r \in BagToSet(user_article_log) : r.article_id = article_id}
    IN  SumOver(rows, [r \in rows |-> user_article_log[r]])

\* slip: the query orders by a.published_at DESC only
PopularOrdersByDate(S) ==
    LET Before(a, b) == published_at(a) > published_at(b)
    IN  OrderedSeqs(S, Before)

\* ORDER BY COUNT(ual.id) DESC, a.published_at DESC, over the rows S
PopularOrders(S) ==
    LET count == [a \in S |-> LogCount(a)]
        Before(a, b) == \/ count[a] > count[b]
                        \/ count[a] = count[b] /\ published_at(a) > published_at(b)
    IN  OrderedSeqs(S, Before)

\* the popularity fallback query with LIMIT top_n
PopularArticles(top_n) == {Take(s, top_n) : s \in PopularOrders(Articles)}

\* SELECT article_id FROM user_article_log WHERE user_id = %s, as a bag of rows
UserLogRows(user_id) == {r \in BagToSet(user_article_log) : r.user_id = user_id}

\* action_count = len(user_article_log)
ActionCount(user_id) ==
    SumOver(UserLogRows(user_id), [r \in UserLogRows(user_id) |-> user_article_log[r]])

\* COUNT(*) as frequency ... GROUP BY search_term
Frequency(user_id, term) ==
    CopiesIn([user_id |-> user_id, search_term |-> term], user_searches)

\* the search terms the LIMIT 5 query can return
SearchKeywordSets(user_id) ==
    LET terms == {t \in SearchTerms : Frequency(user_id, t) > 0}
    IN  {T \in SUBSET terms :
            /\ Cardinality(T) = Min(SearchTermLimit, Cardinality(terms))
            /\ \A t \in T, o \in terms \ T : Frequency(user_id, t) >= Frequency(user_id, o)}

\* Weights are kept in halves (2 = 1.0), so that 0.5 is an integer.
\* action_keywords_temp: 0.5 per log row of an article tagged with the keyword
ActionWeight(user_id, keyword) ==
    LET rows == {r \in UserLogRows(user_id) : <<r.article_id, keyword>> \in article_keywords}
    IN  SumOver(rows, [r \in rows |-> user_article_log[r]])

\* the weight of one feedback row, in halves
FeedbackTypeWeight(feedback_type) ==
    CASE feedback_type = "like" -> 4
      [] feedback_type = "dislike" -> -4
      [] feedback_type = "read" -> 2
      [] feedback_type = "click_external_link" -> 3
      [] OTHER -> 0

\* feedback_keywords_temp
FeedbackWeight(user_id, keyword) ==
    LET rows == {r \in BagToSet(user_feedback) :
                    r.user_id = user_id /\ <<r.article_id, keyword>> \in article_keywords}
    IN  SumOver(rows, [r \in rows |-> user_feedback[r] * FeedbackTypeWeight(r.feedback_type)])

\* keyword_weights, in halves: the three sources added up per keyword (a
\* keyword a source does not mention has 0 there)
SumSources(from_search, from_action, from_feedback) ==
    [k \in DOMAIN from_search |-> from_search[k] + from_action[k] + from_feedback[k]]

\* slip: keywords of weight <= 0 are kept
SortedAll(weight) ==
    LET Heavier(a, b) == weight[a] > weight[b]
    IN  {Take(s, MaxKeywords) : s \in OrderedSeqs(DOMAIN weight, Heavier)}

\* the lists sorted([(k, w) ... if w > 0], key=weight, reverse=True)[:5] can
\* be; keywords of equal weight come in the order the dictionary got them
SortedPositive(weight) ==
    LET positive == {k \in DOMAIN weight : weight[k] > 0}
        Heavier(a, b) == weight[a] > weight[b]
    IN  {Take(s, MaxKeywords) : s \in OrderedSeqs(positive, Heavier)}

\* keyword_weights of the call, in halves: the search terms read weigh their
\* frequency, the log rows 0.5 each, the feedback rows their type's weight
KeywordWeights(user_id, search_keywords) ==
    LET mentioned == KeywordTexts \cup search_keywords
    IN  SumSources(
            [k \in mentioned |->
                IF k \in search_keywords THEN 2 * Frequency(user_id, k) ELSE 0],
            [k \in mentioned |-> ActionWeight(user_id, k)],
            [k \in mentioned |-> FeedbackWeight(user_id, k)])

\* keywords of the call
TopKeywords(user_id, search_keywords) ==
    SortedPositive(KeywordWeights(user_id, search_keywords))

\* random.choices(population, weights, k=min(len(keywords), 3)): every draw is
\* made from the whole population
SelectedKeywords(keywords) ==
    [1..Min(Len(keywords), MaxSelected) -> {keywords[i] : i \in 1..Len(keywords)}]

\* SELECT article_id FROM user_feedback WHERE user_id = %s AND feedback_type = 'dislike'
DislikedArticleIds(user_id) ==
    {r.article_id : r \in {x \in BagToSet(user_feedback) :
                              x.user_id = user_id /\ x.feedback_type = "dislike"}}

\* limit_per_keyword = max(1, top_n // len(selected_keywords)) + 2
LimitPerKeyword(top_n, selected) == Max(1, top_n \div Len(selected)) + 2

NewerFirst(a, b) == published_at(a) > published_at(b)

\* slip: the query does not join the keyword
ArticlesByKeywordUntagged(keyword, disliked, limit) ==
    LET any == {a \in Articles : a \notin disliked}
    IN  {Take(s, limit) : s \in OrderedSeqs(any, NewerFirst)}

\* the per-keyword query: WHERE keyword_text = %s AND a.id NOT IN (disliked)
\* ORDER BY a.published_at DESC LIMIT %s
ArticlesByKeyword(keyword, disliked, limit) ==
    LET tagged == {a \in Articles : <<a, keyword>> \in article_keywords /\ a \notin disliked}
    IN  {Take(s, limit) : s \in OrderedSeqs(tagged, NewerFirst)}

\* slip: the seen_ids test is dropped
RECURSIVE AppendAll(_, _, _, _)
AppendAll(recommended, articles, i, top_n) ==
    IF i > Len(articles) THEN recommended
    ELSE LET next == Append(recommended, articles[i])
         IN  IF Len(next) >= top_n THEN next
             ELSE AppendAll(next, articles, i + 1, top_n)

\* for article in articles: append when the id is not in seen_ids, break
\* once top_n are collected
RECURSIVE AppendUnseen(_, _, _, _)
AppendUnseen(recommended, articles, i, top_n) ==
    IF i > Len(articles) THEN recommended
    ELSE LET seen == {recommended[j] : j \in 1..Len(recommended)}
             next == IF articles[i] \notin seen
                         THEN Append(recommended, articles[i]) ELSE recommended
         IN  IF Len(next) >= top_n THEN next
             ELSE AppendUnseen(next, articles, i + 1, top_n)

\* for keyword in selected_keywords: ... ; the lists the loop can end with
RECURSIVE KeywordLoop(_, _, _, _, _)
KeywordLoop(selected, i, recommended, disliked, top_n) ==
    IF i > Len(selected) \/ Len(recommended) >= top_n THEN {recommended}
    ELSE UNION {KeywordLoop(selected, i + 1, AppendUnseen(recommended, articles, 1, top_n),
                            disliked, top_n) :
                  articles \in ArticlesByKeyword(selected[i], disliked,
                                                 LimitPerKeyword(top_n, selected))}

\* the articles both fallback branches return
Fallback(user_id, top_n) == PopularArticles(top_n)

\* if search_count < 3 and action_count < 3
Insufficient(search_count, action_count) ==
    search_count < MinActivity /\ action_count < MinActivity

\* the lists recommended_articles holds whenever the loop issues a query
RECURSIVE KeywordLoopQueries(_, _, _, _, _)
KeywordLoopQueries(selected, i, recommended, disliked, top_n) ==
    IF i > Len(selected) \/ Len(recommended) >= top_n THEN {}
    ELSE {recommended} \cup
         UNION {KeywordLoopQueries(selected, i + 1,
                                   AppendUnseen(recommended, articles, 1, top_n),
                                   disliked, top_n) :
                  articles \in ArticlesByKeyword(selected[i], disliked,
                                                 LimitPerKeyword(top_n, selected))}

\* slip: the handler returns what was collected before the error
OnStoreErrorPartial(built) == built

\* except MySQLdb.Error: return []
OnStoreError(built) == <<>>

\* a call in which a store access raised MySQLdb.Error while the list
\* `built` had been collected
StoreError(selected, built) ==
    [path |-> "error", selected |-> selected, built |-> built,
     result |-> OnStoreError(built)]

\* Every (path, selected keywords, list built, returned article ids) a call
\* can end with. The cursor and the first queries are reached by every
\* call; the queries of the keyword loop only on the sampled path.
KeywordRecommendations(user_id, top_n) ==
    {StoreError(<<>>, <<>>)} \cup
    UNION {
      IF Insufficient(Cardinality(search_keywords), ActionCount(user_id))
          THEN {[path |-> "insufficient", selected |-> <<>>, built |-> articles,
                 result |-> articles] :
                   articles \in Fallback(user_id, top_n)}
      ELSE UNION {
          IF keywords = <<>>
              THEN {[path |-> "no_keywords", selected |-> <<>>, built |-> articles,
                     result |-> articles] :
                       articles \in Fallback(user_id, top_n)}
          ELSE UNION {
              {[path |-> "sampled", selected |-> selected, built |-> recommended,
                result |-> Take(recommended, top_n)] :
                  recommended \in KeywordLoop(selected, 1, <<>>,
                                              DislikedArticleIds(user_id), top_n)}
              \cup {StoreError(selected, built) :
                       built \in KeywordLoopQueries(selected, 1, <<>>,
                                                    DislikedArticleIds(user_id), top_n)} :
              selected \in SelectedKeywords(keywords)} :
          keywords \in TopKeywords(user_id, search_keywords)} :
      search_keywords \in SearchKeywordSets(user_id)}

\* slip: the scorer logs the first article it returns
get_keyword_recommendations_logging(user_id, top_n) ==
    \E out \in {[path |-> o.path, built |-> o.built, result |-> o.result] :
                   o \in KeywordRecommendations(user_id, top_n)} :
        /\ ret' = [op |-> "get_keyword_recommendations", user_id |-> user_id,
                   top_n |-> top_n, path |-> out.path, built |-> out.built,
                   result |-> out.result]
        /\ user_article_log' =
              IF out.result # <<>> /\ EventCount < MaxEvents
                  THEN LogInsert(user_article_log, user_id, out.result[1], "recommended")
              ELSE user_article_log
        /\ UNCHANGED <<user_searches, user_feedback, recommended_articles>>
        /\ UNCHANGED <<svd_model, bpr_model, inflight>>

\* a call of the scorer: what it returns, and the store it leaves as it was
get_keyword_recommendations(user_id, top_n) ==
    \E out \in {[path |-> o.path, built |-> o.built, result |-> o.result] :
                   o \in KeywordRecommendations(user_id, top_n)} :
        /\ ret' = [op |-> "get_keyword_recommendations", user_id |-> user_id,
                   top_n |-> top_n, path |-> out.path, built |-> out.built,
                   result |-> out.result]
        /\ UNCHANGED <<user_searches, user_article_log, user_feedback, recommended_articles>>
        /\ UNCHANGED <<svd_model, bpr_model, inflight>>

-----------------------------------------------------------------------------

(* get_svd_recommendations, get_bpr_recommendations *)

\* the objects joblib.load returns for svd_model.pkl and bpr_model.pkl
SvdModel == "svd_model.pkl"
BprModel == "bpr_model.pkl"

\* what load_svd_model() and load_bpr_model() can return: the model, or None
\* when the file is missing or joblib.load raises
load_svd_model == {NULL, SvdModel}
load_bpr_model == {NULL, BprModel}

\* slip: the model is loaded again on every call
EnsureModelAlwaysReload(handle, loaded) == [handle |-> loaded, loads |-> 1]

\* if svd_model is None: svd_model = load_svd_model(); `loads` counts the
\* calls of the load function
EnsureModel(handle, loaded) ==
    IF handle = NULL THEN [handle |-> loaded, loads |-> 1]
    ELSE [handle |-> handle, loads |-> 0]

\* slip: the rows of recommended_articles are left out of the UNION
InteractedArticleIdsNoLedger(user_id) ==
    {r.article_id : r \in {x \in BagToSet(user_article_log) : x.user_id = user_id}}
    \cup {r.article_id : r \in {x \in BagToSet(user_feedback) : x.user_id = user_id}}

\* SELECT article_id FROM user_article_log ... UNION ... user_feedback ...
\* UNION ... recommended_articles WHERE user_id = %s
InteractedArticleIds(user_id) ==
    {r.article_id : r \in {x \in BagToSet(user_article_log) : x.user_id = user_id}}
    \cup {r.article_id : r \in {x \in BagToSet(user_feedback) : x.user_id = user_id}}
    \cup {recommended_articles[i].article_id :
             i \in {j \in 1..Len(recommended_articles) :
                       recommended_articles[j].user_id = user_id}}

\* the estimated ratings are the trained model's: no candidate is known to
\* sort before another
ByRating(a, b) == FALSE

\* predictions.sort(key=rating, reverse=True), as article ids
PredictionOrders(candidates) == OrderedSeqs(candidates, ByRating)

\* slip: the articles the user interacted with stay among the candidates
LatentRecommendationsAllArticles(user_id, top_n) ==
    {[path |-> "error", result |-> <<>>]} \cup
    {[path |-> "predicted", result |-> Take(s, top_n)] : s \in PredictionOrders(Articles)}

\* The body of both scorers once a model is available; any exception in it
\* (a store access, predict) returns [].
LatentRecommendations(user_id, top_n) ==
    LET candidates == Articles \ InteractedArticleIds(user_id)
    IN  {[path |-> "error", result |-> <<>>]} \cup
        (IF candidates = {}
            THEN {[path |-> "popular", result |-> articles] :
                     articles \in PopularArticles(top_n)}
         ELSE {[path |-> "predicted", result |-> Take(s, top_n)] :
                  s \in PredictionOrders(candidates)})

\* One call of a latent-factor scorer entered with `handle` when the load
\* function would return `loaded`: the handle it leaves, the number of
\* loads, whether the store was reached, and the list returned.
LatentCall(handle, loaded, user_id, top_n) ==
    LET model == EnsureModel(handle, loaded)
    IN  IF model.handle = NULL
            THEN {[handle |-> NULL, loads |-> model.loads, store_read |-> FALSE,
                   path |-> "no_model", result |-> <<>>]}
        ELSE {[handle |-> model.handle, loads |-> model.loads, store_read |-> TRUE,
               path |-> o.path, result |-> o.result] :
                 o \in LatentRecommendations(user_id, top_n)}

get_svd_recommendations(user_id, top_n) ==
    \E loaded \in load_svd_model :
        \E out \in LatentCall(svd_model, loaded, user_id, top_n) :
            /\ svd_model' = out.handle
            /\ ret' = [op |-> "get_svd_recommendations", user_id |-> user_id,
                       top_n |-> top_n, before |-> svd_model, loads |-> out.loads,
                       store_read |-> out.store_read, path |-> out.path,
                       result |-> out.result]
            /\ UNCHANGED <<user_searches, user_article_log, user_feedback,
                           recommended_articles, bpr_model, inflight>>

get_bpr_recommendations(user_id, top_n) ==
    \E loaded \in load_bpr_model :
        \E out \in LatentCall(bpr_model, loaded, user_id, top_n) :
            /\ bpr_model' = out.handle
            /\ ret' = [op |-> "get_bpr_recommendations", user_id |-> user_id,
                       top_n |-> top_n, before |-> bpr_model, loads |-> out.loads,
                       store_read |-> out.store_read, path |-> out.path,
                       result |-> out.result]
            /\ UNCHANGED <<user_searches, user_article_log, user_feedback,
                           recommended_articles, svd_model, inflight>>

-----------------------------------------------------------------------------

(* The evaluation harness: evaluate_bpr_model.py, evaluate_keyword_model.py *)

\* Python floats are modelled as exact fractions
Rat(num, den) == [num |-> num, den |-> den]
Zero == Rat(0, 1)
RatAdd(a, b) == Rat(a.num * b.den + b.num * a.den, a.den * b.den)
RatDiv(a, n) == Rat(a.num, a.den * n)
RatEq(a, b) == a.num * b.den = b.num * a.den

\* sum(f[x] for x in S) of fractions
RECURSIVE RatSum(_, _)
RatSum(S, f) ==
    IF S = {} THEN Zero
    ELSE LET x == CHOOSE y \in S : TRUE IN RatAdd(f[x], RatSum(S \ {x}, f))

\* for i, pred in enumerate(pred_items[:k], 1): if pred in true_items:
\* hits += 1; score += hits / i  -- the score added from position i on
RECURSIVE PrecisionSum(_, _, _, _, _)
PrecisionSum(pred_items, true_items, k, i, hits) ==
    IF i > Min(k, Len(pred_items)) THEN Zero
    ELSE IF pred_items[i] \in true_items
        THEN RatAdd(Rat(hits + 1, i),
                    PrecisionSum(pred_items, true_items, k, i + 1, hits + 1))
    ELSE PrecisionSum(pred_items, true_items, k, i + 1, hits)

\* any(pred in true_items for pred in pred_items[:k])
AnyHit(pred_items, true_items, k) ==
    \E i \in 1..Min(k, Len(pred_items)) : pred_items[i] \in true_items

\* evaluate_bpr_model.calculate_map_at_k over the users of y_true / y_pred:
\* the users whose AP is appended, ap_scores, and the mean returned
calculate_map_at_k(y_true, y_pred, k) ==
    LET scored == {u \in DOMAIN y_true : y_true[u] # {} /\ y_pred[u] # <<>>}
        ap_scores == [u \in scored |->
                         RatDiv(PrecisionSum(y_pred[u], y_true[u], k, 1, 0),
                                Min(Cardinality(y_true[u]), k))]
    IN  [ap_scores |-> ap_scores,
         map |-> IF scored = {} THEN Zero
                 ELSE RatDiv(RatSum(scored, ap_scores), Cardinality(scored))]

\* slip: users without a true item are counted in total
calculate_hit_rate_counting_all(y_true, y_pred, k) ==
    LET counted == DOMAIN y_true
        hit == {u \in counted : AnyHit(y_pred[u], y_true[u], k)}
    IN  [hits |-> Cardinality(hit), total |-> Cardinality(counted),
         hit_rate |-> IF counted = {} THEN Zero
                      ELSE Rat(Cardinality(hit), Cardinality(counted))]

\* evaluate_bpr_model.calculate_hit_rate_at_k
calculate_hit_rate_at_k(y_true, y_pred, k) ==
    LET counted == {u \in DOMAIN y_true : y_true[u] # {}}
        hit == {u \in counted : AnyHit(y_pred[u], y_true[u], k)}
    IN  [hits |-> Cardinality(hit), total |-> Cardinality(counted),
         hit_rate |-> IF counted = {} THEN Zero
                      ELSE Rat(Cardinality(hit), Cardinality(counted))]

\* 1.0 / np.log2(i + 2) for the 0-based index i, here by the 1-based position,
\* in thousandths: 1/log2(2), 1/log2(3), 1/log2(4), 1/log2(5)
DiscountThousandths == <<1000, 631, 500, 431>>

Discount(position) == DiscountThousandths[position]

\* the discounts of a set of positions added up
DiscountSum(positions) == SumOver(positions, [i \in positions |-> Discount(i)])

\* the NDCG step of calculate_extended_metrics for one user: dcg over the hits
\* of predicted_list[:k], idcg over range(min(k, len(actual_relevant)))
extended_ndcg(predicted_list, actual_relevant, k) ==
    LET dcg == DiscountSum({i \in 1..Min(k, Len(predicted_list)) :
                               predicted_list[i] \in actual_relevant})
        idcg == DiscountSum(1..Min(k, Cardinality(actual_relevant)))
    IN  IF idcg > 0 THEN Rat(dcg, idcg) ELSE Zero

\* sklearn.metrics.ndcg_score([true_relevance], [[n, n-1, .., 1]], k=k): the
\* scores rank the documents in list order; the gain of the first k is
\* divided by the gain of true_relevance sorted best first, cut at k, and an
\* all-zero true_relevance scores 0
ndcg_score(true_relevance, k) ==
    LET n == Len(true_relevance)
        dcg == DiscountSum({i \in 1..Min(k, n) : true_relevance[i] = 1})
        relevant == Cardinality({i \in 1..n : true_relevance[i] = 1})
        idcg == DiscountSum(1..Min(k, relevant))
    IN  IF idcg = 0 THEN Zero ELSE Rat(dcg, idcg)

\* evaluate_keyword_model.calculate_extended_metrics (the users evaluated are
\* those of predicted_ranks with a liked article)
calculate_extended_metrics(predicted_ranks, actual_liked_articles, k) ==
    LET evaluated == {u \in DOMAIN predicted_ranks :
                         u \in DOMAIN actual_liked_articles
                         /\ actual_liked_articles[u] # {}}
        ap == [u \in evaluated |->
                  RatDiv(PrecisionSum(predicted_ranks[u], actual_liked_articles[u], k, 1, 0),
                         Cardinality(actual_liked_articles[u]))]
        ndcg == [u \in evaluated |->
                    extended_ndcg(predicted_ranks[u], actual_liked_articles[u], k)]
        hit == {u \in evaluated :
                   AnyHit(predicted_ranks[u], actual_liked_articles[u], k)}
    IN  [ap |-> ap,
         ndcg |-> ndcg,
         num_users_evaluated |-> Cardinality(evaluated),
         map_score |-> IF evaluated = {} THEN Zero
                       ELSE RatDiv(RatSum(evaluated, ap), Cardinality(evaluated)),
         ndcg_mean |-> IF evaluated = {} THEN Zero
                       ELSE RatDiv(RatSum(evaluated, ndcg), Cardinality(evaluated)),
         hit_rate |-> IF evaluated = {} THEN Zero
                      ELSE Rat(Cardinality(hit), Cardinality(evaluated))]

\* evaluate_bpr_model.evaluate_model from the 'like' rows read and the lists
\* the scorer returned: y_true has a key for each user with a like row;
\* ndcg_scores gets an entry for each user whose true_relevance is non-empty.
evaluate_model(likes, recommended, k) ==
    LET users == {u \in DOMAIN likes : likes[u] # {}}
        y_true == [u \in users |-> likes[u]]
        y_pred == [u \in users |-> recommended[u]]
        map_at_k == calculate_map_at_k(y_true, y_pred, k)
        hit_rate_at_k == calculate_hit_rate_at_k(y_true, y_pred, k)
        true_relevance == [u \in users |->
                              [i \in 1..Len(y_pred[u]) |->
                                  IF y_pred[u][i] \in y_true[u] THEN 1 ELSE 0]]
        ndcg_users == {u \in users : true_relevance[u] # <<>>}
        ndcg_scores == [u \in ndcg_users |-> ndcg_score(true_relevance[u], k)]
    IN  [map |-> map_at_k.map, hit_rate |-> hit_rate_at_k.hit_rate,
         ndcg |-> IF ndcg_users = {} THEN Zero
                  ELSE RatDiv(RatSum(ndcg_users, ndcg_scores), Cardinality(ndcg_users)),
         ndcg_scores |-> ndcg_scores,
         map_users |-> DOMAIN map_at_k.ap_scores,
         ndcg_users |-> ndcg_users,
         hit_users |-> {u \in users : y_true[u] # {}}]

\* evaluate_keyword_model.evaluate_recommendation_model(user_id, 'bpr', k=k):
\* the liked articles read, the list get_bpr_recommendations returns for
\* top_n = k, and the metrics of calculate_extended_metrics for the one user
evaluate_recommendation_model(user_id, k) ==
    \E loaded \in load_bpr_model :
        \E call \in LatentCall(bpr_model, loaded, user_id, k) :
            LET actual_liked_articles_ids ==
                    {r.article_id : r \in {x \in BagToSet(user_feedback) :
                                              x.user_id = user_id /\ x.feedback_type = "like"}}
                out == calculate_extended_metrics(
                           [u \in {user_id} |-> call.result],
                           [u \in {user_id} |-> actual_liked_articles_ids], k)
            IN  /\ bpr_model' = call.handle
                /\ ret' = [op |-> "evaluate_recommendation_model", user_id |-> user_id,
                           k |-> k, predicted |-> call.result,
                           liked |-> actual_liked_articles_ids,
                           map |-> out.map_score, ndcg |-> out.ndcg_mean,
                           hit_rate |-> out.hit_rate]
                /\ UNCHANGED <<user_searches, user_article_log, user_feedback,
                               recommended_articles, svd_model, inflight>>

-----------------------------------------------------------------------------
(* The rating-regression trainer: BPR_model.py *)

\* a type the rating maps do not hold: NaN, dropped by dropna()
NoRating == 0

\* rating_map_feedback, in tenths
rating_map_feedback(feedback_type) ==
    CASE feedback_type = "dislike" -> 1
      [] feedback_type = "view" -> 10
      [] feedback_type = "click_external_link" -> 25
      [] feedback_type = "read" -> 50
      [] feedback_type = "like" -> 100
      [] OTHER -> NoRating

\* rating_map_log, in tenths
rating_map_log(action_type) ==
    CASE action_type = "view" -> 10
      [] action_type = "read" -> 50
      [] action_type = "click_external_link" -> 25
      [] action_type = "feedback_like" -> 100
      [] OTHER -> NoRating

\* the largest number of a non-empty set
MaxOf(S) == CHOOSE x \in S : \A y \in S : y <= x

\* df_combined: the (user_id, article_id, rating) rows of both tables that
\* survive dropna(), as a set (groupby().max() does not see repetitions)
df_combined(fb, log) ==
    {[user_id |-> r.user_id, article_id |-> r.article_id,
      rating |-> rating_map_feedback(r.feedback_type)] :
        r \in {x \in BagToSet(fb) : rating_map_feedback(x.feedback_type) # NoRating}}
    \cup
    {[user_id |-> r.user_id, article_id |-> r.article_id,
      rating |-> rating_map_log(r.action_type)] :
        r \in {x \in BagToSet(log) : rating_map_log(x.action_type) # NoRating}}

\* df_final = df_combined.groupby(['user_id', 'article_id'])['rating'].max()
prepare_data(fb, log) ==
    LET rows == df_combined(fb, log)
        pairs == {<<r.user_id, r.article_id>> : r \in rows}
    IN  {[user_id |-> p[1], article_id |-> p[2],
          rating |-> MaxOf({r.rating : r \in {x \in rows : x.user_id = p[1]
                                                          /\ x.article_id = p[2]}})] :
            p \in pairs}

-----------------------------------------------------------------------------

\* the requests served concurrently
Calls == {1, 2}

\* no request is being served
Idle == [pc |-> "idle"]

\* an empty store and no request in flight
InitStore ==
    /\ user_searches = EmptyBag
    /\ user_article_log = EmptyBag
    /\ user_feedback = EmptyBag
    /\ recommended_articles = <<>>
    /\ inflight = [c \in Calls |-> Idle]
    /\ ret = [op |-> "none"]

\* a serving process that found no model file when it was started
Init ==
    /\ InitStore
    /\ svd_model = NULL
    /\ bpr_model = NULL

\* feedback_type values a client posts; "bogus" stands for any unrecognised one
FeedbackTypes == {"like", "dislike", "cancel", "read", "bogus"}

\* the (user, article) pairs feedback is posted for
FeedbackPairs == {<<1, 1>>, <<1, 2>>, <<2, 1>>}

Feedback ==
    \E pair \in FeedbackPairs, feedback_type \in FeedbackTypes :
        feedback(pair[1], pair[2], feedback_type)

NextFeedback == Feedback

SpecFeedback == Init /\ [][NextFeedback]_vars

\* In the scorer's specification user 1 is the active user: they search,
\* view articles and give like/dislike feedback.  User 2 never searches nor
\* opens an article; they only mark article 1 as read (a user_feedback row
\* without a log row).  The scorer reads the searches and the feedback of
\* the requesting user only, and the log rows of all users.
SearchNews == \E query \in SearchTerms : search_news(1, query)

ViewArticle == \E article_id \in Articles : log_user_action(1, article_id, "view")

LikeDislikeCancel ==
    \E article_id \in {1, 2}, feedback_type \in {"like", "dislike", "cancel"} :
        feedback(1, article_id, feedback_type)

MarkRead == feedback(2, 1, "read")

\* The scorer only reads: a request right after another scorer request sees
\* the same store and can return nothing the first could not, so requests
\* are taken after writes (and at the start) only.
GetKeywordRecommendations ==
    /\ ret.op # "get_keyword_recommendations"
    /\ \E user_id \in Users, top_n \in 1..MaxTopN :
          get_keyword_recommendations(user_id, top_n)

NextKeyword ==
    SearchNews \/ ViewArticle \/ LikeDislikeCancel \/ MarkRead \/ GetKeywordRecommendations

SpecKeyword == Init /\ [][NextKeyword]_vars

\* The requests of user 1 with the keywords the call sampled kept next to the
\* list it returned; user 1 searches and opens articles.
SampleAndRecommend ==
    /\ ret.op # "get_keyword_recommendations"
    /\ \E top_n \in 1..MaxTopN :
          \E out \in KeywordRecommendations(1, top_n) :
              ret' = [op |-> "get_keyword_recommendations", user_id |-> 1,
                      top_n |-> top_n, path |-> out.path, selected |-> out.selected,
                      result |-> out.result]
    /\ UNCHANGED <<user_searches, user_article_log, user_feedback, recommended_articles>>
    /\ UNCHANGED <<svd_model, bpr_model, inflight>>

NextSampled == SearchNews \/ ViewArticle \/ SampleAndRecommend

SpecSampled == Init /\ [][NextSampled]_vars

NextLedger == StoreRecommendations \/ EvalStoreRecommendations

SpecLedger == Init /\ [][NextLedger]_vars

\* The harness is a set of pure functions: the specification draws the
\* ground truth and the predicted lists of two users and a cut-off k, and
\* each action applies one function to them.
TrueSets == {{}, {2}, {1, 2}, {1, 2, 3}}

\* the lists a scorer returns: no article twice
PredLists ==
    {p \in UNION {[1..n -> Articles] : n \in 0..Cardinality(Articles)} : NoDuplicates(p)}

MetricInputs ==
    [op : {"input"}, y_true : [Users -> TrueSets], y_pred : [Users -> PredLists],
     k : 1..MaxK]

InitMetrics ==
    /\ user_searches = EmptyBag
    /\ user_article_log = EmptyBag
    /\ user_feedback = EmptyBag
    /\ recommended_articles = <<>>
    /\ svd_model = NULL
    /\ bpr_model = NULL
    /\ inflight = [c \in Calls |-> Idle]
    /\ ret \in MetricInputs

Computed(op, out) ==
    /\ ret.op = "input"
    /\ ret' = [op |-> op, y_true |-> ret.y_true, y_pred |-> ret.y_pred, k |-> ret.k,
               out |-> out]
    /\ UNCHANGED <<user_searches, user_article_log, user_feedback,
                   recommended_articles, svd_model, bpr_model, inflight>>

CalculateMapAtK ==
    Computed("calculate_map_at_k", calculate_map_at_k(ret.y_true, ret.y_pred, ret.k))

CalculateHitRateAtK ==
    Computed("calculate_hit_rate_at_k", calculate_hit_rate_at_k(ret.y_true, ret.y_pred, ret.k))

CalculateExtendedMetrics ==
    Computed("calculate_extended_metrics",
             calculate_extended_metrics(ret.y_pred, ret.y_true, ret.k))

EvaluateModel ==
    Computed("evaluate_model", evaluate_model(ret.y_true, ret.y_pred, ret.k))

NextMetrics ==
    CalculateMapAtK \/ CalculateHitRateAtK \/ CalculateExtendedMetrics \/ EvaluateModel

SpecMetrics == InitMetrics /\ [][NextMetrics]_vars

\* Two POST /feedback requests of user 1 for article 1 served at the same
\* time, each on its own connection.  A request runs the statements of the
\* handler in order; the statements of the two requests interleave.
ConcurrentFeedbackTypes == {"like", "dislike", "cancel"}

\* both requests have arrived; `start` is the table they arrive at
FeedbackArrive ==
    /\ \A c \in Calls : inflight[c].pc \in {"idle", "done"}
    /\ \E types \in [Calls -> ConcurrentFeedbackTypes] :
          inflight' = [c \in Calls |->
                          [pc |-> "arrived", user_id |-> 1, article_id |-> 1,
                           feedback_type |-> types[c], start |-> user_feedback]]
    /\ ret' = [op |-> "feedback_arrive"]
    /\ UNCHANGED <<user_searches, user_article_log, user_feedback,
                   recommended_articles, svd_model, bpr_model>>

\* the SELECT of the handler, and the log_user_action call for like/dislike
FeedbackSelect(c) ==
    LET call == inflight[c]
    IN  /\ call.pc = "arrived"
        /\ FeedbackIsLogged(call.feedback_type) => EventCount < MaxEvents
        /\ \E existing \in ExistingFeedback(user_feedback, call.user_id, call.article_id) :
              inflight' = [inflight EXCEPT ![c] =
                  [pc |-> "selected", user_id |-> call.user_id,
                   article_id |-> call.article_id, feedback_type |-> call.feedback_type,
                   start |-> call.start, existing |-> existing]]
        /\ user_article_log' =
              IF FeedbackIsLogged(call.feedback_type)
                  THEN LogInsert(user_article_log, call.user_id, call.article_id,
                                 FeedbackActionType(call.feedback_type))
              ELSE user_article_log
        /\ ret' = [op |-> "feedback_select"]
        /\ UNCHANGED <<user_searches, user_feedback, recommended_articles,
                       svd_model, bpr_model>>

\* the DELETE, UPDATE or INSERT the handler decides on from the row it
\* selected, and its commit
FeedbackWrite(c) ==
    LET call == inflight[c]
    IN  /\ call.pc = "selected"
        /\ LET out == FeedbackOutcome(user_feedback, call.existing, call.user_id,
                                      call.article_id, call.feedback_type)
           IN  /\ user_feedback' = out.fb
               /\ inflight' = [inflight EXCEPT ![c] =
                      [pc |-> "done", user_id |-> call.user_id,
                       article_id |-> call.article_id,
                       feedback_type |-> call.feedback_type,
                       start |-> call.start, status |-> out.status]]
        /\ ret' = [op |-> "feedback_write"]
        /\ UNCHANGED <<user_searches, user_article_log, recommended_articles,
                       svd_model, bpr_model>>

ConcurrentFeedbackSelect == \E c \in Calls : FeedbackSelect(c)

ConcurrentFeedbackWrite == \E c \in Calls : FeedbackWrite(c)

NextConcurrentFeedback ==
    FeedbackArrive \/ ConcurrentFeedbackSelect \/ ConcurrentFeedbackWrite

SpecConcurrentFeedback == Init /\ [][NextConcurrentFeedback]_vars

\* Two store_recommendations calls for user 1 and the keyword batch served
\* at the same time, each in its own transaction.  A call runs one INSERT
\* per step and then commits.  The unique key makes an INSERT wait while
\* the other transaction holds an uncommitted row with the same key; when
\* both wait for each other the store aborts one of them with a deadlock
\* error (1213), which is not a duplicate-key error.
ConcurrentLists == {<<1>>, <<1, 2>>, <<2, 1>>, <<3, 2, 1>>}

Other(c) == CHOOSE o \in Calls : o # c

StoreArrive ==
    /\ \A c \in Calls : inflight[c].pc = "idle"
    /\ \E lists \in [Calls -> ConcurrentLists] :
          inflight' = [c \in Calls |->
                          [pc |-> "inserting", user_id |-> 1, article_ids |-> lists[c],
                           batch_id |-> "keyword_batch_20250615",
                           algorithm_version |-> "keyword_v1",
                           rank |-> 1, pending |-> <<>>]]
    /\ ret' = [op |-> "store_arrive"]
    /\ UNCHANGED <<user_searches, user_article_log, user_feedback,
                   recommended_articles, svd_model, bpr_model>>

\* the call is inside its for loop
Inserting(c) ==
    inflight[c].pc = "inserting" /\ inflight[c].rank <= Len(inflight[c].article_ids)

\* the key of the next INSERT of c is held by an uncommitted row of the
\* other transaction
WaitsForOther(c) ==
    /\ Inserting(c)
    /\ inflight[Other(c)].pc = "inserting"
    /\ DuplicateKey(inflight[Other(c)].pending, inflight[c].user_id,
                    inflight[c].article_ids[inflight[c].rank], inflight[c].batch_id)

\* the call after conn.rollback() in the outer except
RolledBack(call) ==
    [pc |-> "done", user_id |-> call.user_id, article_ids |-> call.article_ids,
     batch_id |-> call.batch_id, algorithm_version |-> call.algorithm_version,
     rank |-> call.rank, pending |-> <<>>, outcome |-> "rolled_back"]

\* one INSERT of the loop that the store lets through or rejects as duplicate
StoreInsert(c) ==
    LET call == inflight[c]
        article_id == call.article_ids[call.rank]
        duplicate == DuplicateKey(recommended_articles \o call.pending, call.user_id,
                                  article_id, call.batch_id)
        row == InsertValues(call.user_id, article_id, call.rank, call.batch_id,
                            call.algorithm_version, SessionId(call.batch_id, NULL))
    IN  /\ Inserting(c)
        /\ ~WaitsForOther(c)
        /\ inflight' = [inflight EXCEPT ![c] =
              IF ~duplicate
                  THEN [call EXCEPT !.rank = call.rank + 1,
                                    !.pending = Append(call.pending, row)]
              ELSE IF OnInsertError(TRUE) = "skip"
                  THEN [call EXCEPT !.rank = call.rank + 1]
              ELSE RolledBack(call)]
        /\ ret' = [op |-> "store_insert"]
        /\ UNCHANGED <<user_searches, user_article_log, user_feedback,
                       recommended_articles, svd_model, bpr_model>>

\* both transactions wait for a row of the other: the store aborts the
\* INSERT of c with error 1213
StoreDeadlock(c) ==
    /\ WaitsForOther(c)
    /\ WaitsForOther(Other(c))
    /\ inflight' = [inflight EXCEPT ![c] =
          IF OnInsertError(FALSE) = "raise" THEN RolledBack(inflight[c])
          ELSE [inflight[c] EXCEPT !.rank = inflight[c].rank + 1]]
    /\ ret' = [op |-> "store_deadlock"]
    /\ UNCHANGED <<user_searches, user_article_log, user_feedback,
                   recommended_articles, svd_model, bpr_model>>

\* conn.commit() after the loop
StoreCommit(c) ==
    LET call == inflight[c]
    IN  /\ call.pc = "inserting"
        /\ call.rank > Len(call.article_ids)
        /\ recommended_articles' = recommended_articles \o call.pending
        /\ inflight' = [inflight EXCEPT ![c] =
              [pc |-> "done", user_id |-> call.user_id, article_ids |-> call.article_ids,
               batch_id |-> call.batch_id, algorithm_version |-> call.algorithm_version,
               rank |-> call.rank, pending |-> <<>>, outcome |-> "committed"]]
        /\ ret' = [op |-> "store_commit"]
        /\ UNCHANGED <<user_searches, user_article_log, user_feedback,
                       svd_model, bpr_model>>

ConcurrentStoreInsert == \E c \in Calls : StoreInsert(c)

ConcurrentStoreDeadlock == \E c \in Calls : StoreDeadlock(c)

ConcurrentStoreCommit == \E c \in Calls : StoreCommit(c)

NextConcurrentStore ==
    StoreArrive \/ ConcurrentStoreInsert \/ ConcurrentStoreDeadlock \/ ConcurrentStoreCommit

SpecConcurrentStore == Init /\ [][NextConcurrentStore]_vars

\* The aggregation and the sampling step of the keyword scorer on their
\* own: the specification draws the three weight sources over six keywords,
\* so that more than five can be positive, aggregates them and samples from
\* the aggregated list.
AggregateKeywords == {"ai", "economy", "weather", "sports", "health", "travel"}

\* search frequencies read (in halves): none; three terms once; two terms
SearchCases ==
    {[k \in AggregateKeywords |-> 0],
     [k \in AggregateKeywords |-> IF k \in {"ai", "economy", "sports"} THEN 2 ELSE 0],
     [k \in AggregateKeywords |-> IF k = "ai" THEN 4 ELSE IF k = "economy" THEN 2 ELSE 0]}

\* action_keywords_temp: none; one log row for three keywords; log rows
\* that set all six apart
ActionCases ==
    {[k \in AggregateKeywords |-> 0],
     [k \in AggregateKeywords |-> IF k \in {"ai", "weather", "travel"} THEN 1 ELSE 0],
     [k \in AggregateKeywords |->
         CASE k = "ai" -> 6 [] k = "economy" -> 5 [] k = "weather" -> 4
           [] k = "sports" -> 3 [] k = "health" -> 2 [] OTHER -> 1]}

\* feedback_keywords_temp: none; a dislike on "ai" and a like on "economy";
\* a read on four keywords; a dislike on "travel" and "health"
FeedbackCases ==
    {[k \in AggregateKeywords |-> 0],
     [k \in AggregateKeywords |-> IF k = "ai" THEN -4 ELSE IF k = "economy" THEN 4 ELSE 0],
     [k \in AggregateKeywords |->
         IF k \in {"ai", "economy", "weather", "sports"} THEN 2 ELSE 0],
     [k \in AggregateKeywords |-> IF k \in {"travel", "health"} THEN -4 ELSE 0]}

InitAggregate ==
    /\ user_searches = EmptyBag
    /\ user_article_log = EmptyBag
    /\ user_feedback = EmptyBag
    /\ recommended_articles = <<>>
    /\ svd_model = NULL
    /\ bpr_model = NULL
    /\ inflight = [c \in Calls |-> Idle]
    /\ ret \in [op : {"input"}, search : SearchCases, action : ActionCases,
                feedback : FeedbackCases]

Aggregate ==
    /\ ret.op = "input"
    /\ \E keywords \in SortedPositive(SumSources(ret.search, ret.action, ret.feedback)) :
          ret' = [op |-> "aggregate", search |-> ret.search, action |-> ret.action,
                  feedback |-> ret.feedback, keywords |-> keywords]
    /\ UNCHANGED <<user_searches, user_article_log, user_feedback,
                   recommended_articles, svd_model, bpr_model, inflight>>

Sample ==
    /\ ret.op = "aggregate"
    /\ ret.keywords # <<>>
    /\ \E selected \in SelectedKeywords(ret.keywords) :
          ret' = [op |-> "sample", keywords |-> ret.keywords, selected |-> selected]
    /\ UNCHANGED <<user_searches, user_article_log, user_feedback,
                   recommended_articles, svd_model, bpr_model, inflight>>

NextAggregate == Aggregate \/ Sample

SpecAggregate == InitAggregate /\ [][NextAggregate]_vars

\* In the latent-factor scorers' specification user 1 opens articles, user 2
\* marks article 1 as read and is the user the home page records keyword
\* lists for.
\* svd_model = load_svd_model(); bpr_model = load_bpr_model() at import
InitLatent ==
    /\ InitStore
    /\ svd_model \in load_svd_model
    /\ bpr_model \in load_bpr_model

HomeStore ==
    \E article_ids \in ArticleLists :
        store_recommendations(2, article_ids, "keyword_batch_20250615", "keyword_v1",
                              CHOOSE t \in Tokens : TRUE, 0)

GetSvdRecommendations ==
    \E user_id \in Users, top_n \in 1..MaxTopN : get_svd_recommendations(user_id, top_n)

GetBprRecommendations ==
    \E user_id \in Users, top_n \in 1..MaxTopN : get_bpr_recommendations(user_id, top_n)

NextLatent ==
    ViewArticle \/ MarkRead \/ HomeStore \/ GetSvdRecommendations \/ GetBprRecommendations

SpecLatent == InitLatent /\ [][NextLatent]_vars

\* The harness evaluating the latent-factor scorer on the live store: user 1
\* opens articles and gives like, dislike and cancel feedback; each user is
\* evaluated.  An evaluation writes nothing but the model handle, which a
\* later evaluation finds as a start with the model loaded does, so
\* evaluations are taken after writes (and at the start) only.
EvaluateRecommendationModel ==
    /\ ret.op # "evaluate_recommendation_model"
    /\ \E user_id \in Users, k \in 1..MaxK : evaluate_recommendation_model(user_id, k)

NextLive == ViewArticle \/ LikeDislikeCancel \/ EvaluateRecommendationModel

SpecLive == InitLatent /\ [][NextLive]_vars

\* The trainer reads the store the serving process writes: user 1 opens
\* articles, reads or leaves article 1 for its source, and gives like, dislike
\* and cancel feedback; user 2 marks article 1 as read.
LogAction ==
    \E action_type \in {"read", "click_external_link"} : log_user_action(1, 1, action_type)

PrepareData ==
    /\ ret.op # "prepare_data"
    /\ ret' = [op |-> "prepare_data", df_final |-> prepare_data(user_feedback, user_article_log)]
    /\ UNCHANGED <<user_searches, user_article_log, user_feedback, recommended_articles,
                   svd_model, bpr_model, inflight>>

NextTrainer == ViewArticle \/ LogAction \/ LikeDislikeCancel \/ MarkRead \/ PrepareData

SpecTrainer == Init /\ [][NextTrainer]_vars

-----------------------------------------------------------------------------
(* Properties of the feedback handler *)

\* number of user_feedback rows of the pair
FeedbackRowCount(fb, user_id, article_id) ==
    BagCardinality([r \in FeedbackRows(fb, user_id, article_id) |-> fb[r]])

AtMostOneFeedbackRow ==
    \A user_id \in Users, article_id \in Articles :
        FeedbackRowCount(user_feedback, user_id, article_id) <= 1

\* what one feedback call leaves behind
FeedbackStepEffect ==
    ret'.op = "feedback"
    => /\ ret'.feedback_type \in {"like", "dislike"}
          => /\ FeedbackRows(user_feedback', ret'.user_id, ret'.article_id)
                  = {[user_id |-> ret'.user_id, article_id |-> ret'.article_id,
                      feedback_type |-> ret'.feedback_type]}
             /\ FeedbackRowCount(user_feedback', ret'.user_id, ret'.article_id) = 1
       /\ ret'.feedback_type = "cancel"
          => FeedbackRows(user_feedback', ret'.user_id, ret'.article_id) = {}
       /\ \A user_id \in Users, article_id \in Articles :
             <<user_id, article_id>> # <<ret'.user_id, ret'.article_id>>
             => FeedbackRows(user_feedback', user_id, article_id)
                  = FeedbackRows(user_feedback, user_id, article_id)

\* C7: user_feedback never holds two rows for one (user, article) pair; a
\* like or dislike call leaves exactly the row of its own type for its pair,
\* a cancel call leaves the pair without a row, and no call touches the rows
\* of another pair: so after any sequence of like, dislike and cancel calls
\* the row of a pair is the one of its most recent like/dislike call, and
\* there is none when a cancel came last.
C7_OneRowLastCallWins == [](AtMostOneFeedbackRow) /\ [][FeedbackStepEffect]_vars

\* C7 witness: a dislike call replaced the row of an earlier like call.
C7_Witness ==
    /\ ret.op = "feedback"
    /\ ret.feedback_type = "dislike"
    /\ BagIn([user_id |-> ret.user_id, article_id |-> ret.article_id,
              action_type |-> "feedback_like"], user_article_log)
    /\ FeedbackRows(user_feedback, ret.user_id, ret.article_id)
          = {[user_id |-> ret.user_id, article_id |-> ret.article_id,
              feedback_type |-> "dislike"]}

\* feedback_type values the endpoint recognises
RecognisedFeedbackTypes == StoredFeedbackTypes \cup {"cancel"}

\* C8 (as claimed): a feedback call with an unrecognised feedback_type gets
\* an error response and changes neither user_feedback nor user_article_log,
\* whether or not the pair already has a row.
C8_UnknownTypeRejected ==
    [][(ret'.op = "feedback" /\ ret'.feedback_type \notin RecognisedFeedbackTypes)
       => (/\ ret'.status >= 400
           /\ user_feedback' = user_feedback
           /\ user_article_log' = user_article_log)]_vars

-----------------------------------------------------------------------------
(* Properties of the recommendation ledger *)

\* the rows the most recent call appended
NewRowIndexes == (ret.before + 1)..Len(recommended_articles)

\* number of rows with the key (user_id, article_id, batch_id)
RowsWithKey(rows, user_id, article_id, batch_id) ==
    Cardinality({i \in 1..Len(rows) : /\ rows[i].user_id = user_id
                                      /\ rows[i].article_id = article_id
                                      /\ rows[i].batch_id = batch_id})

StoreCommitted == ret.op = "store_recommendations" /\ ret.outcome = "committed"

\* C2 (as claimed): no step of either ledger writer deletes or modifies an
\* existing recommended_articles row: the table before a step is a prefix
\* of the table after it.
C2_LedgerOnlyGrows == [][IsPrefix(recommended_articles, recommended_articles')]_vars

\* C3: a store_recommendations call that repeats the user, the article id
\* list and the supplied batch_id of the committed call right before it adds
\* no row, changes no row, commits without raising, and leaves exactly one
\* row per (user, article, batch_id).
C3_SecondCallIsNoOp ==
    [][(/\ StoreCommitted
        /\ ret.batch_id # NULL
        /\ ret'.op = "store_recommendations"
        /\ ret'.user_id = ret.user_id
        /\ ret'.article_ids = ret.article_ids
        /\ ret'.batch_id = ret.batch_id
        /\ ret'.fail = 0)
       => (/\ recommended_articles' = recommended_articles
           /\ ret'.outcome = "committed"
           /\ \A r \in 1..Len(ret.article_ids) :
                 RowsWithKey(recommended_articles', ret.user_id,
                             ret.article_ids[r], ret.batch_id) = 1)]_vars

\* C3 witness: a committed call with a supplied batch_id found every one of
\* its two keys in the table already and appended nothing.
C3_Witness ==
    /\ StoreCommitted
    /\ ret.batch_id # NULL
    /\ Len(ret.article_ids) = 2
    /\ ret.before = Len(recommended_articles)
    /\ \A r \in 1..Len(ret.article_ids) :
          RowsWithKey(recommended_articles, ret.user_id,
                      ret.article_ids[r], ret.batch_id) = 1

\* C4 (as claimed): when the insert at one position fails with a
\* non-duplicate error, the rows of the other positions of that call are in
\* the table after the call.
C4_OtherRowsCommitted ==
    (ret.op = "store_recommendations" /\ ret.fail > 0)
    => \A r \in 1..Len(ret.article_ids) :
          r # ret.fail
          => \E i \in 1..Len(recommended_articles) :
                /\ recommended_articles[i].user_id = ret.user_id
                /\ recommended_articles[i].article_id = ret.article_ids[r]
                /\ recommended_articles[i].batch_id = ret.batch_id

\* C9: every row a committed store_recommendations call, or the offline
\* writer, appends holds the article at the 1-based position
\* recommendation_rank of the supplied list, and recommendation_score is
\* 1/recommendation_rank, whatever algorithm_version was passed.
C9_RankIsPositionScoreIsInverse ==
    /\ StoreCommitted
       => \A i \in NewRowIndexes :
             LET row == recommended_articles[i]
             IN  /\ row.recommendation_rank \in 1..Len(ret.article_ids)
                 /\ ret.article_ids[row.recommendation_rank] = row.article_id
                 /\ row.recommendation_score.den # 0
                 /\ row.recommendation_score.num * row.recommendation_rank
                       = row.recommendation_score.den
    /\ ret.op = "evaluate_model.store_recommendations"
       => \A i \in 1..Len(recommended_articles) :
             LET row == recommended_articles[i]
                 list == ret.recommendations[row.user_id]
             IN  /\ row.recommendation_rank \in 1..Len(list)
                 /\ list[row.recommendation_rank] = row.article_id
                 /\ row.recommendation_score.den # 0
                 /\ row.recommendation_score.num * row.recommendation_rank
                       = row.recommendation_score.den

\* C9 witness: a committed svd_v1 call appended the rows of positions 1 and 2.
C9_Witness ==
    /\ StoreCommitted
    /\ ret.algorithm_version = "svd_v1"
    /\ {recommended_articles[i].recommendation_rank : i \in NewRowIndexes} = {1, 2}

\* C10 (as claimed): every row of a committed call carries a non-null
\* batch_id: the generated token when batch_id was omitted, the supplied
\* value otherwise.
C10_BatchIdNeverNull ==
    StoreCommitted
    => \A i \in NewRowIndexes :
          /\ recommended_articles[i].batch_id # NULL
          /\ recommended_articles[i].batch_id
                = (IF ret.batch_id = NULL THEN ret.token ELSE ret.batch_id)

\* C10 (amended): every row of a committed call carries the batch_id that
\* was passed (NULL when omitted); recommendation_session_id is the one
\* generated token of the call when batch_id was omitted and the supplied
\* batch_id otherwise.
C10_TokenGoesToSessionId ==
    StoreCommitted
    => \A i \in NewRowIndexes :
          /\ recommended_articles[i].batch_id = ret.batch_id
          /\ recommended_articles[i].recommendation_session_id
                = (IF ret.batch_id = NULL THEN ret.token ELSE ret.batch_id)

\* C10 witness: a call without batch_id appended two rows.
C10_Witness ==
    /\ StoreCommitted
    /\ ret.batch_id = NULL
    /\ Len(recommended_articles) = ret.before + 2

-----------------------------------------------------------------------------
(* Properties of get_keyword_recommendations *)

KeywordCall == ret.op = "get_keyword_recommendations"

Returned == {ret.result[i] : i \in 1..Len(ret.result)}

\* C1 (as claimed): a call never returns an article on which the calling
\* user holds a dislike row in user_feedback, on the sampled path and on
\* both fallback returns.
C1_NeverReturnsDisliked ==
    KeywordCall => Returned \cap DislikedArticleIds(ret.user_id) = {}

\* C5: a call returns at most top_n article ids and no id twice, whatever
\* the sampling step selected.
C5_AtMostTopNNoDuplicates ==
    KeywordCall => Len(ret.result) <= ret.top_n /\ NoDuplicates(ret.result)

\* C5 witness: the sampled path filled a list of two with top_n = 2.
C5_Witness ==
    /\ KeywordCall
    /\ ret.path = "sampled"
    /\ ret.top_n = 2
    /\ Len(ret.result) = 2

\* the user has no row in user_searches and none in user_article_log
ZeroEvents(user_id) ==
    /\ \A r \in BagToSet(user_searches) : r.user_id # user_id
    /\ \A r \in BagToSet(user_article_log) : r.user_id # user_id

\* a sorts strictly before b by log count, then by publish time
MorePopular(a, b) ==
    \/ LogCount(a) > LogCount(b)
    \/ LogCount(a) = LogCount(b) /\ published_at(a) > published_at(b)

C11_StoreErrorReturnsEmpty ==
    (KeywordCall /\ ret.path = "error") => ret.result = <<>>

\* C11 witness: the error hit the keyword loop after an article had been
\* collected, and the call returned the empty list.
C11_Witness ==
    /\ KeywordCall
    /\ ret.path = "error"
    /\ ret.built # <<>>
    /\ ret.result = <<>>

-----------------------------------------------------------------------------
(* Properties of get_svd_recommendations and get_bpr_recommendations *)

LatentCallDone == ret.op \in {"get_svd_recommendations", "get_bpr_recommendations"}

\* the handle of the scorer that was called, after the call
HandleAfter == IF ret.op = "get_svd_recommendations" THEN svd_model ELSE bpr_model

\* what one call of a latent-factor scorer does about its model handle
ReloadOnce ==
    LatentCallDone
    => /\ ret.before = NULL => ret.loads = 1
       /\ (ret.before = NULL /\ HandleAfter = NULL)
             => (ret.result = <<>> /\ ~ret.store_read)
       /\ (ret.before = NULL /\ HandleAfter # NULL) => ret.store_read
       /\ ret.before # NULL => (ret.loads = 0 /\ HandleAfter = ret.before /\ ret.store_read)

\* a loaded model stays in its handle
HandleKept ==
    /\ svd_model # NULL => svd_model' = svd_model
    /\ bpr_model # NULL => bpr_model' = bpr_model

\* C12: a call entered with an unset handle loads exactly once; when the
\* load fails it returns the empty list without reaching the store; when it
\* succeeds the model stays in the handle, and a call entered with a set
\* handle predicts with it without loading.
C12_ReloadOnce == [](ReloadOnce) /\ [][HandleKept]_vars

\* C12 witness: a user with unseen articles called a scorer whose handle was
\* unset, the one reload failed and the call returned the empty list.
C12_Witness ==
    /\ LatentCallDone
    /\ ret.before = NULL
    /\ ret.loads = 1
    /\ HandleAfter = NULL
    /\ ret.result = <<>>
    /\ Articles \ InteractedArticleIds(ret.user_id) # {}

\* the articles the user has a log row, a feedback row or a ledger row for
SeenSet(user_id) ==
    {a \in Articles :
        \/ \E r \in BagToSet(user_article_log) : r.user_id = user_id /\ r.article_id = a
        \/ \E r \in BagToSet(user_feedback) : r.user_id = user_id /\ r.article_id = a
        \/ \E i \in 1..Len(recommended_articles) :
              /\ recommended_articles[i].user_id = user_id
              /\ recommended_articles[i].article_id = a}

\* result is the first top_n articles by log count, then publish time
IsPopularityList(result, top_n) ==
    /\ Len(result) = Min(top_n, Cardinality(Articles))
    /\ NoDuplicates(result)
    /\ \A i, j \in 1..Len(result) : i < j => ~MorePopular(result[j], result[i])
    /\ \A a \in Articles \ {result[i] : i \in 1..Len(result)} :
          \A i \in 1..Len(result) : ~MorePopular(a, result[i])

\* C13: a latent-factor scorer with a model, when no exception aborts it,
\* returns only articles outside the user's seen set when the catalog has
\* such an article, and the popularity list when it has none.
C13_UnseenOrPopular ==
    (LatentCallDone /\ ret.path \in {"predicted", "popular"})
    => IF Articles \ SeenSet(ret.user_id) # {}
          THEN Returned \cap SeenSet(ret.user_id) = {}
       ELSE IsPopularityList(ret.result, ret.top_n)

\* C13 witness: the bpr scorer returned the one article left for a user who
\* has a feedback row for one article and only a ledger row for another.
C13_Witness ==
    /\ ret.op = "get_bpr_recommendations"
    /\ ret.path = "predicted"
    /\ ret.result # <<>>
    /\ \E i \in 1..Len(recommended_articles) :
          /\ recommended_articles[i].user_id = ret.user_id
          /\ recommended_articles[i].article_id
                \notin InteractedArticleIdsNoLedger(ret.user_id)
    /\ InteractedArticleIdsNoLedger(ret.user_id) # {}

-----------------------------------------------------------------------------
(* Properties of the evaluation harness *)

\* positions of the top k of the predicted list that hold a true positive
HitPositions(pred, truth, k) == {i \in 1..Min(k, Len(pred)) : pred[i] \in truth}

\* sum over the hit positions i of (true positives among 1..i) / i, divided
\* by min(|truth|, k)
ReferenceAP(pred, truth, k) ==
    LET hit == HitPositions(pred, truth, k)
    IN  RatDiv(RatSum(hit, [i \in hit |-> Rat(Cardinality({j \in hit : j <= i}), i)]),
               Min(Cardinality(truth), k))

\* C14 (as claimed): every per-user Average Precision computed by
\* calculate_map_at_k and by calculate_extended_metrics equals the sum of
\* (true positives among 1..i) / i over the hit positions i <= k divided by
\* min(|truth|, k), also when |truth| > k.
C14_AveragePrecision ==
    /\ ret.op = "calculate_map_at_k"
       => \A u \in DOMAIN ret.out.ap_scores :
             RatEq(ret.out.ap_scores[u], ReferenceAP(ret.y_pred[u], ret.y_true[u], ret.k))
    /\ ret.op = "calculate_extended_metrics"
       => \A u \in DOMAIN ret.out.ap :
             RatEq(ret.out.ap[u], ReferenceAP(ret.y_pred[u], ret.y_true[u], ret.k))

\* users with at least one ground-truth positive
WithPositive == {u \in Users : ret.y_true[u] # {}}

C16_SameUsersInAllAverages ==
    ret.op = "evaluate_model"
    => /\ ret.out.map_users = WithPositive
       /\ ret.out.ndcg_users = WithPositive
       /\ ret.out.hit_users = WithPositive

-----------------------------------------------------------------------------
(* Properties of the aggregation and the sampling step *)

\* the summed weight of a keyword in the aggregation last made
SummedWeight(k) == ret.search[k] + ret.action[k] + ret.feedback[k]

\* C17: the aggregated list holds only keywords of summed weight > 0, is
\* sorted by weight descending, and is the five heaviest positive keywords
\* (all of them when there are fewer than five).
C17_TopFivePositive ==
    ret.op = "aggregate"
    => LET keywords == ret.keywords
           listed == {keywords[i] : i \in 1..Len(keywords)}
           positive == {k \in AggregateKeywords : SummedWeight(k) > 0}
       IN  /\ listed \subseteq positive
           /\ NoDuplicates(keywords)
           /\ \A i, j \in 1..Len(keywords) :
                 i < j => SummedWeight(keywords[i]) >= SummedWeight(keywords[j])
           /\ Len(keywords) = Min(5, Cardinality(positive))
           /\ \A k \in positive \ listed :
                 \A i \in 1..Len(keywords) : SummedWeight(k) <= SummedWeight(keywords[i])

\* C17 witness: six keywords summed to a positive weight, a like having
\* outweighed a dislike for one of them, and five are listed.
C17_Witness ==
    /\ ret.op = "aggregate"
    /\ Len(ret.keywords) = 5
    /\ \A k \in AggregateKeywords : SummedWeight(k) > 0
    /\ \E k \in AggregateKeywords : ret.feedback[k] < 0

\* C18 (as claimed): the sampling step selects min(3, number of weighted
\* keywords) keywords of the aggregated list, no keyword twice.
C18_SampledKeywordsDistinct ==
    ret.op = "sample"
    => /\ Len(ret.selected) = Min(3, Len(ret.keywords))
       /\ \A i \in 1..Len(ret.selected) :
             \E j \in 1..Len(ret.keywords) : ret.selected[i] = ret.keywords[j]
       /\ NoDuplicates(ret.selected)

-----------------------------------------------------------------------------
(* Properties of concurrent requests *)

\* the tables one feedback call can leave when it runs alone on fb
AfterFeedback(fb, user_id, article_id, feedback_type) ==
    {FeedbackOutcome(fb, existing, user_id, article_id, feedback_type).fb :
        existing \in ExistingFeedback(fb, user_id, article_id)}

\* the tables the two calls can leave when `first` runs to its end before
\* the other starts
SerialFeedback(first, second) ==
    UNION {AfterFeedback(fb, inflight[second].user_id, inflight[second].article_id,
                         inflight[second].feedback_type) :
             fb \in AfterFeedback(inflight[first].start, inflight[first].user_id,
                                  inflight[first].article_id,
                                  inflight[first].feedback_type)}

\* C19 (as claimed): when two concurrent feedback calls of one user for one
\* article have both ended, user_feedback holds at most one row for the
\* pair and is a table that one of the two serial orders of the calls
\* leaves.
C19_ConcurrentFeedbackSerial ==
    (\A c \in Calls : inflight[c].pc = "done")
    => /\ FeedbackRowCount(user_feedback, inflight[1].user_id, inflight[1].article_id) <= 1
       /\ user_feedback \in SerialFeedback(1, 2) \cup SerialFeedback(2, 1)

\* articles of the list of call c
ListedBy(c) == {inflight[c].article_ids[i] : i \in 1..Len(inflight[c].article_ids)}

\* C20 (as claimed): when two concurrent store_recommendations calls for
\* the same user and batch_id have both ended, every article both lists
\* hold has exactly one row for its key, and every other article of either
\* list has its row committed.
C20_ConcurrentStoreKeepsAllRows ==
    (\A c \in Calls : inflight[c].pc = "done")
    => /\ \A a \in ListedBy(1) \cap ListedBy(2) :
             RowsWithKey(recommended_articles, inflight[1].user_id, a,
                         inflight[1].batch_id) = 1
       /\ \A c \in Calls :
             \A a \in ListedBy(c) \ ListedBy(Other(c)) :
                RowsWithKey(recommended_articles, inflight[c].user_id, a,
                            inflight[c].batch_id) >= 1

-----------------------------------------------------------------------------

(* NDCG *)

\* the claimed per-user NDCG facts for a predicted list, a set of true
\* positives and a cut-off: 0 without a hit in the top k, and 1 exactly when
\* the first min(k, |true positives|) positions are all true positives
ClaimedNdcg(ndcg, pred, truth, k) ==
    LET ideal == Min(k, Cardinality(truth)) IN
    /\ HitPositions(pred, truth, k) = {} => ndcg.num = 0
    /\ ideal = 0 => ndcg.num = 0
    /\ ndcg.num = ndcg.den
           <=> /\ ideal > 0
               /\ \A i \in 1..ideal : i <= Len(pred) /\ pred[i] \in truth

\* C21: the per-user NDCG@k of calculate_extended_metrics and of
\* evaluate_bpr_model.evaluate_model is 0 when no top-k predicted article is
\* a true positive, and 1 exactly when the first min(k, |true positives|)
\* predicted positions are all true positives.
C21_NdcgZeroAndOne ==
    /\ ret.op = "calculate_extended_metrics" =>
           \A u \in DOMAIN ret.out.ndcg :
               ClaimedNdcg(ret.out.ndcg[u], ret.y_pred[u], ret.y_true[u], ret.k)
    /\ ret.op = "evaluate_model" =>
           \A u \in DOMAIN ret.out.ndcg_scores :
               ClaimedNdcg(ret.out.ndcg_scores[u], ret.y_pred[u], ret.y_true[u], ret.k)

\* the same for calculate_extended_metrics alone
C21_ExtendedNdcg ==
    ret.op = "calculate_extended_metrics" =>
        \A u \in DOMAIN ret.out.ndcg :
            ClaimedNdcg(ret.out.ndcg[u], ret.y_pred[u], ret.y_true[u], ret.k)

-----------------------------------------------------------------------------

(* The weight of a keyword *)

\* copies of the rows of a bag that satisfy Test
RowsCounted(bag, Test(_)) ==
    LET rows == {r \in BagToSet(bag) : Test(r)}
    IN  SumOver(rows, [r \in rows |-> bag[r]])

Tagged(article_id, keyword) == <<article_id, keyword>> \in article_keywords

\* the claimed weight, in halves: search occurrences, 0.5 per view, read or
\* click_external_link log event, 2 per liked and -2 per disliked article
ClaimedWeight(user_id, keyword, search_keywords) ==
    LET BrowsingEvent(r) ==
            /\ r.user_id = user_id /\ Tagged(r.article_id, keyword)
            /\ r.action_type \in {"view", "read", "click_external_link"}
        Liked(r) ==
            /\ r.user_id = user_id /\ Tagged(r.article_id, keyword)
            /\ r.feedback_type = "like"
        Disliked(r) ==
            /\ r.user_id = user_id /\ Tagged(r.article_id, keyword)
            /\ r.feedback_type = "dislike"
    IN  (IF keyword \in search_keywords THEN 2 * Frequency(user_id, keyword) ELSE 0)
        + RowsCounted(user_article_log, BrowsingEvent)
        + 4 * RowsCounted(user_feedback, Liked)
        - 4 * RowsCounted(user_feedback, Disliked)

\* C22: the weight the scorer gives a keyword is the occurrences of the
\* keyword among the user's most frequent search terms, plus 0.5 per view,
\* read or click_external_link log event on an article tagged with it, plus
\* 2 per liked and minus 2 per disliked tagged article, and nothing else.
C22_WeightIsSumOfThreeSources ==
    (KeywordCall /\ ret.path \in {"sampled", "no_keywords"}) =>
        \A search_keywords \in SearchKeywordSets(ret.user_id) :
            \A k \in DOMAIN KeywordWeights(ret.user_id, search_keywords) :
                KeywordWeights(ret.user_id, search_keywords)[k]
                    = ClaimedWeight(ret.user_id, k, search_keywords)

(* The insufficient-signal test *)

\* search events of the user: rows of user_searches
SearchEvents(user_id) ==
    LET Mine(r) == r.user_id = user_id IN RowsCounted(user_searches, Mine)

\* C23: the scorer takes the insufficient-signal fallback exactly when the
\* user has fewer than 3 search events and fewer than 3 interaction events.
C23_InsufficientByEventCounts ==
    (KeywordCall /\ ret.path # "error") =>
        (ret.path = "insufficient"
            <=> SearchEvents(ret.user_id) < MinActivity
                /\ ActionCount(ret.user_id) < MinActivity)

-----------------------------------------------------------------------------

(* Properties of the trainer's ratings *)

\* the ratings the claim lets a pair have, in tenths: that of its current
\* feedback row (like 10.0, dislike 0.1, and a view, click_external_link or
\* read kept as a feedback row counted as that event) and those of its view,
\* click_external_link and read log events
ClaimedCandidates(user_id, article_id) ==
    {rating_map_feedback(r.feedback_type) :
        r \in {x \in FeedbackRows(user_feedback, user_id, article_id) :
                  x.feedback_type \in {"like", "dislike", "view",
                                       "click_external_link", "read"}}}
    \cup
    {rating_map_log(r.action_type) :
        r \in {x \in BagToSet(user_article_log) :
                  /\ x.user_id = user_id /\ x.article_id = article_id
                  /\ x.action_type \in {"view", "click_external_link", "read"}}}

ClaimedRatings ==
    {[user_id |-> p[1], article_id |-> p[2],
      rating |-> MaxOf(ClaimedCandidates(p[1], p[2]))] :
        p \in {q \in Users \X Articles : ClaimedCandidates(q[1], q[2]) # {}}}

\* C24: prepare_data yields exactly one rating per (user, article) pair, the
\* maximum over the pair's current like (10.0) or dislike (0.1) row and its
\* view (1.0), click_external_link (2.5) and read (5.0) events; a cancelled
\* feedback contributes nothing.
C24_RatingIsMaxOfCurrentSignals ==
    ret.op = "prepare_data" => ret.df_final = ClaimedRatings

\* one rating per pair
C24_OneRatingPerPair ==
    ret.op = "prepare_data" =>
        \A r, o \in ret.df_final :
            (r.user_id = o.user_id /\ r.article_id = o.article_id) => r = o

-----------------------------------------------------------------------------

(* The scorer only reads *)

\* C25: get_keyword_recommendations writes nothing: user_searches,
\* user_article_log, user_feedback and recommended_articles are the same
\* before and after a call, on the personalised path, on either fallback and
\* when a store access fails (article_keywords is the fixed catalog).
C25_ScorerWritesNothing ==
    [][ret'.op = "get_keyword_recommendations" =>
           UNCHANGED <<user_searches, user_article_log, user_feedback,
                       recommended_articles>>]_vars

\* a call that ended on the second fallback, over a store that holds rows
C25_Witness ==
    /\ KeywordCall
    /\ ret.path = "no_keywords"
    /\ ret.result # <<>>
    /\ user_article_log # EmptyBag
    /\ user_feedback # EmptyBag

-----------------------------------------------------------------------------

(* Errors of the ledger writer *)

\* C26: store_recommendations never raises to its caller: when obtaining the
\* connection or the cursor fails, when an insert fails with an error other
\* than a duplicate key, or when the commit fails, the call returns normally.
C26_StoreNeverRaises ==
    ret.op = "store_recommendations" => ret.outcome # "raised"

\* the same for the failures of an insert and of the commit alone
C26_InsertOrCommitFailureReturns ==
    (ret.op = "store_recommendations" /\ (ret.fail > 0 \/ ret.fail = CommitFails))
        => ret.outcome # "raised"

-----------------------------------------------------------------------------

(* The sampled-keyword path *)

\* C27: on the sampled-keyword path every returned article is tagged with at
\* least one of the sampled keywords, so an article without keywords is
\* never returned on that path.
C27_ReturnedAreTaggedWithSampled ==
    (KeywordCall /\ ret.path = "sampled") =>
        \A a \in Returned :
            \E i \in 1..Len(ret.selected) : <<a, ret.selected[i]>> \in article_keywords

\* a sampled call that returned articles while article 3, which has no
\* keyword, was the article opened most often
C27_Witness ==
    /\ KeywordCall
    /\ ret.path = "sampled"
    /\ ret.result # <<>>
    /\ \A a \in Articles \ {3} : LogCount(3) > LogCount(a)
    /\ 3 \notin Returned

-----------------------------------------------------------------------------

(* Repeated feedback *)

\* the step is a like or dislike call for a pair whose row has that type
RepeatsFeedback ==
    /\ ret'.op = "feedback"
    /\ ret'.feedback_type \in {"like", "dislike"}
    /\ \E r \in FeedbackRows(user_feedback, ret'.user_id, ret'.article_id) :
          r.feedback_type = ret'.feedback_type

\* C28: a like or dislike call for a pair that already has a row of the same
\* type changes no stored state: user_feedback and user_article_log are the
\* same before and after the call.
C28_RepeatedFeedbackChangesNothing ==
    [][RepeatsFeedback => UNCHANGED <<user_feedback, user_article_log>>]_vars

\* the user_feedback table alone
C28_RepeatedFeedbackKeepsFeedbackRows ==
    [][RepeatsFeedback => UNCHANGED user_feedback]_vars

-----------------------------------------------------------------------------

(* Ranks within a batch *)

\* C29: after any sequence of store_recommendations calls, the rows of each
\* (user, batch_id) group have pairwise-distinct recommendation_rank.
C29_RanksDistinctWithinBatch ==
    \A i, j \in 1..Len(recommended_articles) :
        (/\ i < j
         /\ recommended_articles[i].batch_id # NULL
         /\ recommended_articles[i].user_id = recommended_articles[j].user_id
         /\ recommended_articles[i].batch_id = recommended_articles[j].batch_id)
        => recommended_articles[i].recommendation_rank
               # recommended_articles[j].recommendation_rank

-----------------------------------------------------------------------------

(* The latent-factor scorer evaluated on the live store *)

====
